---- MODULE Spec2Model ----
(***************************************************************************)
(* Model of bil2asset.py: the Converter class (validate, convert, run) and *)
(* the command-line entry point main(), over an explicit filesystem.       *)
(*                                                                         *)
(* A path is a sequence of components and a component is a sequence of     *)
(* one-character strings, so that Path.suffix and the slice suffix[-3:]    *)
(* are computed as pathlib and Python compute them.                        *)
(***************************************************************************)
EXTENDS Integers, Sequences, FiniteSets, TLC

VARIABLES
    fs,      \* the filesystem: a function from the paths that exist to their node
    job,     \* the Converter object: input_file, output_file, type, input_format
    last,    \* outcome of the latest run() of job: the error raised ("none": it
             \* returned, "new": not run yet), the method that raised it, and the
             \* error of the run() of job before that one
    proc     \* the latest process running main(): whether one ran, whether its
             \* arguments name a convertible input and a free output, where
             \* main() ended and the exit status

vars == <<fs, job, last, proc>>

----------------------------------------------------------------------------
(* Bounds of the model *)

\* largest number of samples (width * height) of an input raster
MaxCells == 2

----------------------------------------------------------------------------
(* Names and paths *)

c_in == <<"i", "n">>
c_out == <<"o", "u", "t">>
c_new == <<"n", "e", "w">>
c_sub == <<"s", "u", "b">>
n_a_bil == <<"a", ".", "b", "i", "l">>
n_b_tiff == <<"b", ".", "t", "i", "f", "f">>
n_c_xtif == <<"c", ".", "x", "t", "i", "f">>
n_d_nc == <<"d", ".", "n", "c">>
n_z_bil == <<"z", ".", "b", "i", "l">>
HdrSuffix == <<".", "h", "d", "r">>
IndexName == <<"i", "n", "d", "e", "x", ".", "t", "x", "t">>

P_in == <<c_in>>
P_a_bil == <<c_in, n_a_bil>>
P_b_tiff == <<c_in, n_b_tiff>>
P_c_xtif == <<c_in, n_c_xtif>>
P_d_nc == <<c_in, n_d_nc>>
P_z_bil == <<c_in, n_z_bil>>
P_out == <<c_out>>
P_new_sub_a == <<c_new, c_sub, <<"a">>>>
P_new_sub_b == <<c_new, c_sub, <<"b">>>>

\* the input paths a job is constructed with (P_z_bil does not exist, P_in is a directory)
InputPaths == {P_a_bil, P_b_tiff, P_c_xtif, P_d_nc, P_z_bil, P_in}

\* the output paths a job is constructed with: two files of one directory that
\* does not exist before the first run, and P_out, an existing directory
OutputPaths == {P_new_sub_a, P_new_sub_b, P_out}

\* pathlib: Path.parent
Parent(p) == IF Len(p) = 0 THEN p ELSE SubSeq(p, 1, Len(p) - 1)

\* pathlib: Path.name
Name(p) == IF Len(p) = 0 THEN <<>> ELSE p[Len(p)]

\* position of the last "." of a name, 0 when there is none
LastDot(n) ==
    LET ds == {i \in 1..Len(n) : n[i] = "."}
    IN  IF ds = {} THEN 0 ELSE CHOOSE i \in ds : \A j \in ds : j <= i

\* pathlib: Path.suffix, the final component's last dot and what follows it;
\* empty when the name has no dot, starts with its only dot, or ends with a dot
Suffix(p) ==
    LET n == Name(p)
        i == LastDot(n)
    IN  IF i > 1 /\ i < Len(n) THEN SubSeq(n, i, Len(n)) ELSE <<>>

\* Python: s[-3:], the last three characters of s, or all of s when it is shorter
Last3(s) == IF Len(s) <= 3 THEN s ELSE SubSeq(s, Len(s) - 2, Len(s))

\* the extension of a path: the text after the last dot of its name, of any length
Extension(p) ==
    LET s == Suffix(p)
    IN  IF Len(s) = 0 THEN <<>> ELSE SubSeq(s, 2, Len(s))

\* str(output_file) + ".hdr"
HdrPath(p) == IF Len(p) = 0 THEN p ELSE [p EXCEPT ![Len(p)] = @ \o HdrSuffix]

\* output_file.parent / "index.txt"
IndexPath(p) == Append(Parent(p), IndexName)

\* rasterio.drivers.raster_driver_extensions().keys(): the extensions, without
\* a dot, that the raster library maps to a driver
SUPPORTED_RASTERIO_FORMATS ==
    { <<"b", "i", "l">>, <<"t", "i", "f">>, <<"t", "i", "f", "f">>, <<"n", "c">> }

\* enum SUPPORTED_ASSET
SUPPORTED_ASSET == {"dlu", "dtm"}

----------------------------------------------------------------------------
(* The filesystem *)

DirNode == [kind |-> "dir"]
FileNode(c) == [kind |-> "file", content |-> c]

\* Path.exists()
Exists(f, p) == p \in DOMAIN f

\* Path.is_file()
IsFile(f, p) == p \in DOMAIN f /\ f[p].kind = "file"

\* Path.is_dir()
IsDir(f, p) == p \in DOMAIN f /\ f[p].kind = "dir"

\* the filesystem f with node nd at path p (created or replaced)
Put(f, p, nd) == [q \in (DOMAIN f) \cup {p} |-> IF q = p THEN nd ELSE f[q]]

\* the proper ancestors of p, p itself included, the root excluded
Ancestors(p) == {SubSeq(p, 1, k) : k \in 1..Len(p)}

\* Path.mkdir(parents=True, exist_ok=True): the missing ancestors of d and d
\* itself are created; the call fails when one of them is a file
MkdirFails(f, d) == \E a \in Ancestors(d) : IsFile(f, a)

MkdirParents(f, d) ==
    [q \in (DOMAIN f) \cup Ancestors(d) |-> IF q \in DOMAIN f THEN f[q] ELSE DirNode]

----------------------------------------------------------------------------
(* Rasters: what rasterio reads from an input file *)

DTypes == {"uint8", "int8", "int16", "uint16", "int32"}

\* numpy: the least and the greatest value of an integer sample type
DTypeMin(t) ==
    CASE t = "uint8" -> 0
      [] t = "int8" -> -128
      [] t = "int16" -> -32768
      [] t = "uint16" -> 0
      [] t = "int32" -> -2147483647 - 1

DTypeMax(t) ==
    CASE t = "uint8" -> 255
      [] t = "int8" -> 127
      [] t = "int16" -> 32767
      [] t = "uint16" -> 65535
      [] t = "int32" -> 2147483647

\* the sample values the rasters of the model are drawn from, per sample type
SampleValues(t) ==
    CASE t = "uint8" -> {0, 7, 255}
      [] t = "int8" -> {-128, 5, 127}
      [] t = "int16" -> {-32768, -9999, 12, 32767}
      [] t = "uint16" -> {0, 300, 40000, 65535}
      [] t = "int32" -> {-100000, -9999, 9, 70000}

\* src.nodata: None, or a number
NoNodata == [has |-> FALSE, val |-> 0]
Nodata(v) == [has |-> TRUE, val |-> v]

\* drivers of the raster library: EHdr and ENVI write a text header beside the
\* data file, GTiff writes none
Drivers == {"EHdr", "ENVI", "GTiff"}

Raster(crs, driver, dtype, nodata, w, h, data, left, top, resx) ==
    [tag |-> "raster", crs |-> crs, driver |-> driver, dtype |-> dtype,
     nodata |-> nodata, width |-> w, height |-> h, data |-> data,
     left |-> left, top |-> top, resx |-> resx, resy |-> resx]

\* src.bounds and src.res[0], from the dataset's transform and dimensions
Bounds(r) ==
    [left |-> r.left, right |-> r.left + r.width * r.resx,
     bottom |-> r.top - r.height * r.resy, top |-> r.top]

\* the shapes of the rasters of the model: at most MaxCells samples
Shapes == {wh \in (1..MaxCells) \X (1..MaxCells) : wh[1] * wh[2] <= MaxCells}

\* the no-data values a raster of sample type t may declare
NodataChoices(t) == {NoNodata} \cup {Nodata(v) : v \in SampleValues(t)}

\* the rasters of sample type t read by driver drv, with or without a CRS
RastersOf(t, drv, crs) ==
    UNION { { Raster(crs, drv, t, nd, wh[1], wh[2], d, 0, 100, 10) :
                nd \in NodataChoices(t),
                d \in [1..(wh[1] * wh[2]) -> SampleValues(t)] } : wh \in Shapes }

\* every raster with a CRS, read by the EHdr driver, of every sample type
AllRasters == UNION { RastersOf(t, "EHdr", TRUE) : t \in DTypes }

----------------------------------------------------------------------------
(* numpy: remap of the no-data value, cast and serialisation *)

\* nodata value is 0 for DLU and -9999 for DTM
NODATA_DLU == 0
NODATA_DTM == -9999

NodataValue(type) == IF type = "dlu" THEN NODATA_DLU ELSE NODATA_DTM

\* C integer conversion: v reduced modulo 2^bits into the range of sample type t
\* whether integer v is within the range of sample type t
Fits(t, v) == DTypeMin(t) <= v /\ v <= DTypeMax(t)

\* C integer conversion: v reduced modulo 2^bits into the range of sample type t
WrapTo(t, v) ==
    IF Fits(t, v) THEN v
    ELSE LET span == DTypeMax(t) - DTypeMin(t) + 1
         IN  ((v - DTypeMin(t)) % span) + DTypeMin(t)

\* data[data == src.nodata] = nodata_value: the assignment stores the value
\* converted to the array's own sample type
Remap(r, type) ==
    [i \in 1..Len(r.data) |->
        IF r.nodata.has /\ r.data[i] = r.nodata.val
        THEN WrapTo(r.dtype, NodataValue(type))
        ELSE r.data[i]]

\* np.array(data).astype(">i2"): each sample converted to signed 16 bits
AsTypeI2(data) == [i \in 1..Len(data) |-> WrapTo("int16", data[i])]

\* data.tofile(): the samples in row-major order, two bytes each, high byte first
ToFile(data) ==
    [k \in 1..(2 * Len(data)) |->
        LET u == data[(k + 1) \div 2] % 65536
        IN  IF k % 2 = 1 THEN u \div 256 ELSE u % 256]

\* a reader of the target format: big-endian signed 16-bit samples
DecodeBE(bytes) ==
    [i \in 1..(Len(bytes) \div 2) |->
        LET u == bytes[2 * i - 1] * 256 + bytes[2 * i]
        IN  IF u >= 32768 THEN u - 65536 ELSE u]

----------------------------------------------------------------------------
(* The raster library's writer and the header file *)

BytesOf(b) == [tag |-> "bytes", bytes |-> b]
TextOf(ls) == [tag |-> "text", lines |-> ls]

\* the decimal digit of a dimension
Digit(n) == <<"1", "2", "3", "4", "5", "6", "7", "8", "9">>[n]

\* the header the library writes for a new dataset of the given driver and
\* dimensions: EHdr declares BYTEORDER I, ENVI declares "byte order = 0"
LibraryHeader(driver, w, h) ==
    IF driver = "EHdr"
    THEN << <<"B", "Y", "T", "E", "O", "R", "D", "E", "R", " ", " ", " ", " ", " ", " ", "I", "\n">>,
            <<"L", "A", "Y", "O", "U", "T", " ", " ", " ", " ", " ", " ", " ", " ", " ", "B", "I", "L", "\n">>,
            <<"N", "R", "O", "W", "S", " ", " ", " ", " ", " ", " ", " ", " ", " ", " ">> \o <<Digit(h)>> \o <<"\n">>,
            <<"N", "C", "O", "L", "S", " ", " ", " ", " ", " ", " ", " ", " ", " ", " ">> \o <<Digit(w)>> \o <<"\n">> >>
    ELSE << <<"E", "N", "V", "I", "\n">>,
            <<"s", "a", "m", "p", "l", "e", "s", " ", "=", " ">> \o <<Digit(w)>> \o <<"\n">>,
            <<"l", "i", "n", "e", "s", " ", " ", " ", "=", " ">> \o <<Digit(h)>> \o <<"\n">>,
            <<"b", "y", "t", "e", " ", "o", "r", "d", "e", "r", " ", "=", " ", "0", "\n">> >>

\* with rasterio.open(self.output_file, "w", **dest_meta): pass
\* the driver is the source's (dest_meta is a copy of src.meta); the data file is
\* created empty of samples, and EHdr and ENVI write <output>.hdr beside it
CreateContainer(f, out, src) ==
    LET f1 == Put(f, out, FileNode([tag |-> "container", driver |-> src.driver]))
    IN  IF src.driver \in {"EHdr", "ENVI"}
        THEN Put(f1, HdrPath(out),
                 FileNode(TextOf(LibraryHeader(src.driver, src.width, src.height))))
        ELSE f1

BYTEORDER == <<"B", "Y", "T", "E", "O", "R", "D", "E", "R">>
BYTEORDER_M == <<"B", "Y", "T", "E", "O", "R", "D", "E", "R", "=", "M", "\n">>

\* str.startswith
StartsWith(l, prefix) ==
    Len(l) >= Len(prefix) /\ SubSeq(l, 1, Len(prefix)) = prefix

\* a header rewrite that tests the line for equality with the key, not for the
\* prefix: no line of a header matches and every line passes through
RewriteHeaderExactMatch(ls) ==
    [i \in 1..Len(ls) |-> IF ls[i] = BYTEORDER THEN BYTEORDER_M ELSE ls[i]]

\* the header's lines written back, each line that starts with BYTEORDER
\* replaced by "BYTEORDER=M\n"
RewriteHeader(ls) ==
    [i \in 1..Len(ls) |-> IF StartsWith(ls[i], BYTEORDER) THEN BYTEORDER_M ELSE ls[i]]

\* the line of index.txt: <filename> <left> <right> <bottom> <top> <res[0]>,
\* kept as its six fields
IndexLine(out, src) ==
    << Name(out), Bounds(src).left, Bounds(src).right, Bounds(src).bottom,
       Bounds(src).top, src.resx >>

\* index.txt opened in append mode: the line is added after those of earlier runs
WriteIndexAppend(f, out, src) ==
    LET p == IndexPath(out)
        old == IF IsFile(f, p) THEN f[p].content.lines ELSE <<>>
    IN  Put(f, p, FileNode(TextOf(Append(old, IndexLine(out, src)))))

\* open(output_file.parent / "index.txt", "w"): the file is truncated and
\* the line written
WriteIndex(f, out, src) ==
    Put(f, IndexPath(out), FileNode(TextOf(<<IndexLine(out, src)>>)))

MnuName == <<".", "m", "n", "u">>

\* for mnu_file in input_file.parent.glob(".mnu"): shutil.copy(mnu_file, output_file.parent)
\* the pattern has no wildcard: it matches the entry named exactly ".mnu"
CopyMnu(f, inp, out) ==
    LET m == Append(Parent(inp), MnuName)
    IN  IF IsFile(f, m) THEN Put(f, Append(Parent(out), MnuName), f[m]) ELSE f

----------------------------------------------------------------------------
(* Converter *)

\* Converter.__init__
Converter(input_file, output_file, type) ==
    [input_file |-> input_file, output_file |-> output_file, type |-> type,
     input_format |-> Last3(Suffix(input_file))]

Outcome(err, f) == [err |-> err, fs |-> f]

\* Converter.convert from "save to output file" on: the container and its header
\* by the library, the samples by numpy, the header rewritten, index.txt, the
\* sidecar files
WriteOutputs(f, j, src) ==
    LET out == j.output_file
        data == AsTypeI2(Remap(src, j.type))
        f1 == CreateContainer(f, out, src)
        f2 == Put(f1, out, FileNode(BytesOf(ToFile(data))))
        hdr == HdrPath(out)
    IN  IF ~IsFile(f2, hdr)
        THEN Outcome("FileNotFoundError", f2)
        ELSE LET f3 == Put(f2, hdr,
                           FileNode(TextOf(RewriteHeader(f2[hdr].content.lines))))
                 f4 == WriteIndex(f3, out, src)
                 f5 == IF j.type = "dlu" THEN CopyMnu(f4, j.input_file, out) ELSE f4
             IN  Outcome("none", f5)

\* a convert() that tests the CRS only after the outputs are written
ConvertLateCrsCheck(f, j, strict) ==
    LET src == f[j.input_file].content
    IN  IF ~IsFile(f, j.input_file) \/ src.tag # "raster"
        THEN Outcome("RasterioIOError", f)
        ELSE IF strict /\ ~Fits(src.dtype, NodataValue(j.type))
        THEN Outcome("OverflowError", f)
        ELSE IF ~IsDir(f, Parent(j.output_file))
        THEN Outcome("RasterioIOError", f)
        ELSE IF ~src.crs
        THEN Outcome("ValueError", WriteOutputs(f, j, src).fs)
        ELSE WriteOutputs(f, j, src)

\* Converter.convert; strict: whether numpy refuses to store a Python integer
\* that is out of the range of the array's sample type (numpy 2 raises
\* OverflowError, numpy 1 stores it wrapped)
Convert(f, j, strict) ==
    LET src == f[j.input_file].content
    IN  IF ~IsFile(f, j.input_file) \/ src.tag # "raster"
        THEN Outcome("RasterioIOError", f)
        ELSE IF ~src.crs
        THEN Outcome("ValueError", f)
        ELSE IF strict /\ ~Fits(src.dtype, NodataValue(j.type))
        THEN Outcome("OverflowError", f)
        ELSE IF ~IsDir(f, Parent(j.output_file))
        THEN Outcome("RasterioIOError", f)
        ELSE WriteOutputs(f, j, src)

\* Converter.validate_input_file: the error raised, "none" when it returns
ValidateInputFile(f, j) ==
    IF ~Exists(f, j.input_file) THEN "FileNotFoundError"
    ELSE IF ~IsFile(f, j.input_file) THEN "IsADirectoryError"
    ELSE IF j.input_format \notin SUPPORTED_RASTERIO_FORMATS THEN "ValueError"
    ELSE "none"

\* a validate_output_file without the test that the output path is free
ValidateOutputFileNoExistsCheck(f, j) ==
    LET output_file_dir == Parent(j.output_file)
    IN  IF IsDir(f, j.output_file) THEN Outcome("IsADirectoryError", f)
        ELSE IF ~Exists(f, output_file_dir)
        THEN IF MkdirFails(f, output_file_dir)
             THEN Outcome("NotADirectoryError", f)
             ELSE Outcome("none", MkdirParents(f, output_file_dir))
        ELSE Outcome("none", f)

\* Converter.validate_output_file
ValidateOutputFile(f, j) ==
    LET output_file_dir == Parent(j.output_file)
    IN  IF Exists(f, j.output_file) THEN Outcome("FileExistsError", f)
        ELSE IF IsDir(f, j.output_file) THEN Outcome("IsADirectoryError", f)
        ELSE IF ~Exists(f, output_file_dir)
        THEN IF MkdirFails(f, output_file_dir)
             THEN Outcome("NotADirectoryError", f)
             ELSE Outcome("none", MkdirParents(f, output_file_dir))
        ELSE Outcome("none", f)

Result(err, stage, f) == [err |-> err, stage |-> stage, fs |-> f]

\* a run() whose validate() checks the output before the input
RunResultOutputFirst(f, j, strict) ==
    LET vo == ValidateOutputFile(f, j)
        vi == ValidateInputFile(vo.fs, j)
        cv == Convert(vo.fs, j, strict)
    IN  IF vo.err # "none" THEN Result(vo.err, "validate_output_file", vo.fs)
        ELSE IF vi # "none" THEN Result(vi, "validate_input_file", vo.fs)
        ELSE Result(cv.err, "convert", cv.fs)

\* Converter.run: validate() (the input, then the output), then convert()
RunResult(f, j, strict) ==
    LET vi == ValidateInputFile(f, j)
        vo == ValidateOutputFile(f, j)
        cv == Convert(vo.fs, j, strict)
    IN  IF vi # "none" THEN Result(vi, "validate_input_file", f)
        ELSE IF vo.err # "none" THEN Result(vo.err, "validate_output_file", vo.fs)
        ELSE Result(cv.err, "convert", cv.fs)

----------------------------------------------------------------------------
(* main() *)

\* the ways "--type" is given on the command line
TypeArgs == {"omitted", "dlu", "dtm"}

\* parser.parse_args(): the choices test `value in SUPPORTED_ASSET` on the
\* string value raises TypeError, answers False or answers True depending on
\* the Python version; an omitted --type takes the default without the test
Contains == {"raise", "false", "true"}

\* the exit status of the process running main():
\*   2 when argparse rejects the value of --type,
\*   1 when an exception escapes (the TypeError of the choices test, or the
\*     TypeError of Converter(args.input_file, args.output_file), which omits
\*     the required argument `type`),
\*   0 when main() returns (after converter.run(), which is never reached)
MainOutcome(targ, contains) ==
    IF targ # "omitted" /\ contains = "raise" THEN [stage |-> "parse_args", exit |-> 1]
    ELSE IF targ # "omitted" /\ contains = "false" THEN [stage |-> "parse_args", exit |-> 2]
    ELSE [stage |-> "Converter", exit |-> 1]

\* the format the command line selects (DLU when --type is omitted)
SelectedType(targ) == IF targ = "omitted" THEN "dlu" ELSE targ

----------------------------------------------------------------------------
(* Initial states *)

MnuText == TextOf(<< <<"m", "\n">> >>)

\* the raster of c.xtif
OtherRaster == Raster(TRUE, "EHdr", "int16", Nodata(-9999), 1, 1, <<12>>, 500, 900, 20)

\* the filesystem before any run: directory in/ with the input files (they hold
\* raster r, but c.xtif), the sidecar files .mnu and a.mnu, and an empty directory out/
InitFs(r) ==
    ( <<>> :> DirNode ) @@ ( P_in :> DirNode ) @@ ( P_out :> DirNode ) @@
    ( P_a_bil :> FileNode(r) ) @@
    ( P_b_tiff :> FileNode(r) ) @@
    ( P_c_xtif :> FileNode(OtherRaster) ) @@
    ( P_d_nc :> FileNode(r) ) @@
    ( <<c_in, MnuName>> :> FileNode(MnuText) ) @@
    ( <<c_in, <<"a", ".", "m", "n", "u">>>> :> FileNode(MnuText) )

\* the rasters the input files hold in Spec: one grid, with and without a CRS, of each driver
FixtureRasters ==
    { Raster(crs, drv, "int16", Nodata(-9999), 2, 1, <<-9999, 12>>, 0, 100, 10) :
        crs \in BOOLEAN, drv \in Drivers }

NotRun == [err |-> "new", stage |-> "new", prev |-> "new"]
NoProc == [called |-> FALSE, args_ok |-> FALSE, stage |-> "new", exit |-> 0]

Init ==
    /\ \E r \in FixtureRasters : fs = InitFs(r)
    /\ \E i \in InputPaths, o \in OutputPaths, t \in SUPPORTED_ASSET :
          job = Converter(i, o, t)
    /\ last = NotRun
    /\ proc = NoProc

\* tests/test_bil2asset.py: a job from a.bil to an output in a directory that
\* does not exist yet, of either format, over every raster
InitRaster ==
    /\ \E r \in AllRasters : fs = InitFs(r)
    /\ \E t \in SUPPORTED_ASSET : job = Converter(P_a_bil, P_new_sub_a, t)
    /\ last = NotRun
    /\ proc = NoProc

----------------------------------------------------------------------------
(* Actions *)

\* converter = Converter(input_file, output_file, type)
Construct(i, o, t) ==
    /\ job' = Converter(i, o, t)
    /\ last' = NotRun
    /\ UNCHANGED <<fs, proc>>

\* converter.run()
Run ==
    \E strict \in BOOLEAN :
        LET r == RunResult(fs, job, strict)
        IN  /\ fs' = r.fs
            /\ last' = [err |-> r.err, stage |-> r.stage, prev |-> last.err]
            /\ UNCHANGED <<job, proc>>

\* a process running `python bil2asset.py i o [--type targ]`
Main(i, o, targ, contains) ==
    /\ proc' = [called |-> TRUE,
                args_ok |-> \A strict \in BOOLEAN :
                               RunResult(fs, Converter(i, o, SelectedType(targ)), strict).err = "none",
                stage |-> MainOutcome(targ, contains).stage,
                exit |-> MainOutcome(targ, contains).exit]
    /\ UNCHANGED <<fs, job, last>>

\* the Converter as the tests use it: jobs are constructed and run
Next ==
    \/ \E i \in InputPaths, o \in OutputPaths, t \in SUPPORTED_ASSET : Construct(i, o, t)
    \/ Run

Spec == Init /\ [][Next]_vars

\* the tests' job over every raster
NextRaster ==
    \/ \E t \in SUPPORTED_ASSET : Construct(P_a_bil, P_new_sub_a, t)
    \/ Run

SpecRaster == InitRaster /\ [][NextRaster]_vars

\* the command line: processes running main() on the initial filesystem
NextMain ==
    \E i \in InputPaths, o \in OutputPaths, targ \in TypeArgs, c \in Contains :
        Main(i, o, targ, c)

SpecMain == Init /\ [][NextMain]_vars

----------------------------------------------------------------------------
(* The claims *)

\* C1: when run() of a job has completed successfully and run() of the same job
\* is invoked again, the second run fails with FileExistsError, raised by
\* validate_output_file, and the whole filesystem (the output file, its .hdr
\* header and index.txt in particular) is as the first run left it.
C1_SecondRunFailsUntouched ==
    [][ (last.err = "none" /\ last'.err # "new" /\ job' = job)
          => ( /\ last'.err = "FileExistsError"
               /\ last'.stage = "validate_output_file"
               /\ fs' = fs ) ]_vars

\* a second run() of a job whose first run() succeeded has failed with
\* FileExistsError, the three files of the first run being there
C1_Witness ==
    /\ last.prev = "none"
    /\ last.err = "FileExistsError"
    /\ IsFile(fs, job.output_file)
    /\ IsFile(fs, HdrPath(job.output_file))
    /\ IsFile(fs, IndexPath(job.output_file))

\* C2: when the input raster declares no CRS, convert() fails with ValueError
\* and the run has neither created nor written the output file, <output>.hdr
\* or index.txt: each of the three is absent if it was absent and unchanged
\* if it was there.
C2_NoCrsFailsBeforeOutput ==
    [][ (last'.err # "new" /\ job' = job /\ last'.stage = "convert"
            /\ ~fs[job.input_file].content.crs)
          => ( /\ last'.err = "ValueError"
               /\ \A p \in {job.output_file, HdrPath(job.output_file),
                            IndexPath(job.output_file)} :
                     /\ Exists(fs', p) <=> Exists(fs, p)
                     /\ Exists(fs, p) => fs'[p] = fs[p] ) ]_vars

\* convert() has failed with ValueError in a directory where an earlier run
\* left an index.txt, and there is no output file and no header
C2_Witness ==
    /\ last.stage = "convert"
    /\ last.err = "ValueError"
    /\ ~fs[job.input_file].content.crs
    /\ IsDir(fs, Parent(job.output_file))
    /\ IsFile(fs, IndexPath(job.output_file))
    /\ ~Exists(fs, job.output_file)
    /\ ~Exists(fs, HdrPath(job.output_file))

\* C3 (as claimed): after a successful convert() of a raster with a CRS, of any
\* sample type and any sample values, the output holds width*height*2 bytes
\* and every decoded big-endian signed 16-bit sample equals the source sample
\* at its position, a sample equal to the declared no-data value being
\* replaced by the format's sentinel.
C3_OutputEqualsSource ==
    last.err = "none" =>
        LET src == fs[job.input_file].content
            bytes == fs[job.output_file].content.bytes
            dec == DecodeBE(bytes)
        IN  /\ Len(bytes) = src.width * src.height * 2
            /\ \A i \in 1..(src.width * src.height) :
                  dec[i] = IF src.nodata.has /\ src.data[i] = src.nodata.val
                           THEN NodataValue(job.type)
                           ELSE src.data[i]

\* C4 (as claimed): after a successful convert(), for every sample type, every
\* source sample equal to the declared no-data value is, in the output,
\* -9999 when the format is DTM and 0 when it is DLU.
C4_NodataBecomesSentinel ==
    last.err = "none" =>
        LET src == fs[job.input_file].content
            dec == DecodeBE(fs[job.output_file].content.bytes)
        IN  \A i \in 1..(src.width * src.height) :
                (src.nodata.has /\ src.data[i] = src.nodata.val)
                    => dec[i] = (IF job.type = "dtm" THEN -9999 ELSE 0)

C6_MainExitsZero ==
    (proc.called /\ proc.args_ok) => (proc.stage = "returned" /\ proc.exit = 0)

\* C7 (as claimed): for an input path that is a regular file,
\* validate_input_file() raises ValueError if and only if the text after the
\* last dot of the file's name is not in the set of supported extensions.
C7_UnsupportedIffExtensionNotInSet ==
    (last.err # "new" /\ IsFile(fs, job.input_file)) =>
        ( (last.stage = "validate_input_file" /\ last.err = "ValueError")
            <=> Extension(job.input_file) \notin SUPPORTED_RASTERIO_FORMATS )

\* C8: the index.txt of a directory never holds more than one line, and after
\* a successful run() it holds the record of that run: the output's name, the
\* source's left, right, bottom and top bounds and its x-resolution.
C8_IndexHoldsLatestRecord ==
    /\ \A o \in OutputPaths :
          IsFile(fs, IndexPath(o)) => Len(fs[IndexPath(o)].content.lines) = 1
    /\ last.err = "none" =>
          LET src == fs[job.input_file].content
          IN  fs[IndexPath(job.output_file)].content.lines =
                << << Name(job.output_file), src.left,
                      src.left + src.width * src.resx,
                      src.top - src.height * src.resy, src.top, src.resx >> >>

\* two runs have succeeded into one directory, the run into b last
C8_Witness ==
    /\ last.err = "none"
    /\ job.output_file = P_new_sub_b
    /\ IsFile(fs, P_new_sub_a) /\ IsFile(fs, HdrPath(P_new_sub_a))
    /\ IsFile(fs, P_new_sub_b) /\ IsFile(fs, HdrPath(P_new_sub_b))
    /\ fs[IndexPath(P_new_sub_b)].content.lines[1][1] = Name(P_new_sub_b)

\* C9 (as claimed): when the output path is an existing directory,
\* validate_output_file() fails with IsADirectoryError.
C9_DirectoryOutputIsDirectoryError ==
    (last.err # "new" /\ last.stage # "validate_input_file"
        /\ IsDir(fs, job.output_file))
      => (last.stage = "validate_output_file" /\ last.err = "IsADirectoryError")

\* C10: when validate() raises in run(), the filesystem is as it was before
\* run() (no directory created, no file created or modified) and convert() is
\* not started; an input path that is a directory fails with
\* IsADirectoryError in validate_input_file.
C10_ValidateFailureLeavesFilesystem ==
    [][ (last'.err # "new" /\ job' = job)
          => ( /\ last'.stage \in {"validate_input_file", "validate_output_file"}
                     => fs' = fs
               /\ IsDir(fs, job.input_file)
                     => ( /\ last'.stage = "validate_input_file"
                          /\ last'.err = "IsADirectoryError"
                          /\ fs' = fs )
               /\ (~Exists(fs, job.input_file) \/ Exists(fs, job.output_file))
                     => last'.stage # "convert" ) ]_vars

\* run() has failed on an input path that is a directory, and the directory
\* of the output, which did not exist, has not been created
C10_Witness ==
    /\ last.stage = "validate_input_file"
    /\ last.err = "IsADirectoryError"
    /\ IsDir(fs, job.input_file)
    /\ ~Exists(fs, Parent(job.output_file))

====
